---- MODULE Spec2Model ----
(***************************************************************************)
(* State-machine model of the TUN TCP bridge of shadowsocks-service       *)
(* (crates/shadowsocks-service/src/local/tun/tcp.rs): the shared,          *)
(* mutex-guarded smoltcp interface (TcpSocketManager), the per-connection  *)
(* TcpConnection handle (AsyncRead / AsyncWrite / Drop), the driver-loop   *)
(* task spawned by TcpTun::new, and TcpTun::handle_packet /                *)
(* drive_interface_state / Drop.                                           *)
(*                                                                         *)
(* Every operation that takes the ParkingMutex is two steps: the           *)
(* acquisition (`lock` goes from NoLock to the holder and its operation)   *)
(* and the critical section, which ends by releasing the guard.  A thread  *)
(* blocked in lock() is a thread whose acquisition step is not enabled.    *)
(***************************************************************************)
EXTENDS Integers, Sequences, FiniteSets, TLC

(***************************** bounds **************************************)
\* slots of the interface's socket set that can be in use at once, and
\* TcpConnection::new calls over one run
MaxSockets == 2
\* payload bytes each direction of a connection carries over its life
MaxBytes == 2
\* configured accept_opts.tcp.recv_buffer_size and send_buffer_size
BufSize == 2
\* capacity of the iface_tx channel (frames waiting for the next poll)
ChanCap == 2

RecvBufSize == BufSize
SendBufSize == BufSize

(*************************** program constants *****************************)
\* Duration::from_millis(50): the driver loop's fallback when poll_delay is None
FallbackMillis == 50

\* Option<Duration>: what iface.poll_delay returns, in milliseconds
NoDelay == [some |-> FALSE, ms |-> 0]
SomeDelay(ms) == [some |-> TRUE, ms |-> ms]
\* the Some(..) values iface.poll_delay is let return
PollDelayMillis == {100}

VARIABLES
    sockets,    \* manager.iface's socket set: handle -> TcpSocket
    conns,      \* live TcpConnection values (each owned by one spawned task)
    dropped,    \* ghost: serial numbers of the TcpConnections already dropped
    nconn,      \* ghost: number of TcpConnection::new calls so far
    lock,       \* the ParkingMutex around TcpSocketManager: holder and operation
    driver,     \* the driver-loop task: position and next_duration
    tun,        \* the TcpTun value: alive, and where drive_interface_state is
    inq,        \* frames sent on iface_tx and not yet taken by the device
    budget,     \* ghost: the bound of this run, one of Budgets
    ret         \* observation: what the step just taken returned / did

vars == <<sockets, conns, dropped, nconn, lock, driver, tun, inq, budget, ret>>

(***************************** addresses ***********************************)
\* std::net::SocketAddr: V4(octets, port) or V6(octets, port)
V4(a, b, c, d, p) == [v |-> 4, ip |-> <<a, b, c, d>>, port |-> p]
V6(o, p) == [v |-> 6, ip |-> o, port |-> p]

\* ::ffff:93.184.216.34
MappedOctets == <<0, 0, 0, 0, 0, 0, 0, 0, 0, 0, 255, 255, 93, 184, 216, 34>>
\* 2001:db8::1
PlainV6Octets == <<32, 1, 13, 184, 0, 0, 0, 0, 0, 0, 0, 0, 0, 0, 0, 1>>
\* ::93.184.216.34 (IPv4-compatible, not IPv4-mapped)
CompatOctets == <<0, 0, 0, 0, 0, 0, 0, 0, 0, 0, 0, 0, 93, 184, 216, 34>>

\* the peers and destinations the captured segments are let carry
SrcAddrs == {V4(10, 0, 0, 2, 40000)}
OneDst == {V4(203, 0, 113, 5, 80), V4(203, 0, 113, 5, 0)}
DstAddrs == {V4(203, 0, 113, 5, 80), V4(203, 0, 113, 5, 0), V6(MappedOctets, 80),
             V6(PlainV6Octets, 80), V6(CompatOctets, 443)}

\* what one run explores: several connections to one destination that carry no
\* payload, one connection that carries payload, or one connection to any of
\* the destinations
Budgets == {[conns |-> MaxSockets, bytes |-> 0, dsts |-> OneDst],
            [conns |-> 1, bytes |-> MaxBytes, dsts |-> OneDst],
            [conns |-> 1, bytes |-> 0, dsts |-> DstAddrs]}

\* mutant: the IPv4-compatible form ::a.b.c.d is taken for IPv4-mapped as well
to_ipv4_mapped_compat(o) ==
    IF \A i \in 1..10 : o[i] = 0
       THEN <<o[13], o[14], o[15], o[16]>>
       ELSE <<>>

\* crate::local::utils::to_ipv4_mapped: Some(v4 octets) for ::ffff:a.b.c.d
to_ipv4_mapped(o) ==
    IF \A i \in 1..10 : o[i] = 0
       THEN IF o[11] = 255 /\ o[12] = 255
               THEN <<o[13], o[14], o[15], o[16]>>
               ELSE <<>>
       ELSE <<>>

\* handle_redir_client: the destination handed to establish_client_tcp_redir
NormalizeDaddr(daddr) ==
    IF daddr.v = 6
       THEN IF to_ipv4_mapped(daddr.ip) # <<>>
               THEN [v |-> 4, ip |-> to_ipv4_mapped(daddr.ip), port |-> daddr.port]
               ELSE daddr
       ELSE daddr

(************************** smoltcp TcpSocket ******************************)
TcpStates == {"Closed", "Listen", "SynReceived", "Established", "FinWait1",
              "FinWait2", "CloseWait", "Closing", "LastAck", "TimeWait"}

\* TcpSocket::is_open
is_open(s) == s.state \notin {"Closed", "TimeWait"}
\* TcpSocket::may_send
may_send(s) == s.state \in {"Established", "CloseWait"}
\* TcpSocket::may_recv
may_recv(s) == s.state \in {"Established", "FinWait1", "FinWait2"} \/ Len(s.rx) > 0
\* TcpSocket::can_send
can_send(s) == may_send(s) /\ Len(s.tx) < SendBufSize
\* TcpSocket::can_recv
can_recv(s) == may_recv(s) /\ Len(s.rx) > 0

Min(a, b) == IF a < b THEN a ELSE b

\* TcpSocket::new + set_ack_delay(None) + listen(dst_addr) of handle_packet;
\* sid, placed, readLog, accLog and takenLog are ghost fields
NewListenSocket(sid, dst) ==
    [state |-> "Listen", rx |-> <<>>, tx |-> <<>>, rxw |-> FALSE, txw |-> FALSE,
     local |-> dst, sid |-> sid,
     placed |-> 0, readLog |-> <<>>, accLog |-> <<>>, takenLog |-> <<>>]

\* TcpSocket::listen on a fresh socket: Err(Unaddressable) for port 0
listen_ok(dst) == dst.port # 0

\* rx_waker.wake() / tx_waker.wake(): a woken waker is taken out of its slot
WakeRx(s) == [s EXCEPT !.rxw = FALSE]
WakeTx(s) == [s EXCEPT !.txw = FALSE]
\* TcpSocket::set_state wakes both wakers
SetState(s, st) == WakeTx(WakeRx([s EXCEPT !.state = st]))

\* TcpSocket::close: set_state in the states a CLOSE call acts on
close(s) ==
    CASE s.state = "Listen" -> SetState(s, "Closed")
      [] s.state \in {"SynReceived", "Established"} -> SetState(s, "FinWait1")
      [] s.state = "CloseWait" -> SetState(s, "LastAck")
      [] OTHER -> s

(******************************* the lock **********************************)
NoLock == [who |-> "none", c |-> 0]
Held(who, c) == [who |-> who, c |-> c]

\* what the last step returned: the call, its connection, its result, the byte
\* or frame count, whether it notified the driver loop, the length it was
\* called with and (a poll) how many wakers it woke
NoRet == [op |-> "none", c |-> 0, res |-> "none", n |-> 0, notified |-> FALSE,
          arg |-> 0, woke |-> 0]
Ret(op, c, res, n, notified) ==
    [op |-> op, c |-> c, res |-> res, n |-> n, notified |-> notified, arg |-> 0,
     woke |-> 0]

\* the driver-loop task: spawned or woken and waiting to be polled ("woken"),
\* being polled, before manager.lock() or inside the locked block ("run"),
\* suspended in yield_now ("yield") or in the select! ("select"), or cancelled
Woken == [pc |-> "woken", poll_delay |-> NoDelay, next_duration |-> 0]
Running == [pc |-> "run", poll_delay |-> NoDelay, next_duration |-> 0]
Aborted == [pc |-> "aborted", poll_delay |-> NoDelay, next_duration |-> 0]

\* Notify::notify_waiters as the driver loop sees it: only a notified() future
\* that the select! has already created is completed; nothing is stored
notify_waiters(d) ==
    IF d.pc = "select" THEN Woken ELSE d

\* SocketSet::add: the first vacant slot
FreeHandles == (1..MaxSockets) \ DOMAIN sockets
\* mutant: the first slot is handed out whether it is vacant or not
add_socket_handle_first_slot ==
    CHOOSE h \in 1..MaxSockets : \A g \in 1..MaxSockets : h <= g

add_socket_handle == CHOOSE h \in FreeHandles : \A g \in FreeHandles : h <= g

\* the ghost byte streams: the peer sends 1, 2, 3, ... and so does the relay
Stream(from, to) == [i \in 1..(to - from + 1) |-> from + i - 1]

(************************ iface.poll / poll_delay **************************)
\* the peer's segment carries the next j bytes of its stream into rx_buffer
RecvData(s) ==
    {WakeRx([s EXCEPT !.rx = s.rx \o Stream(s.placed + 1, s.placed + j),
                      !.placed = s.placed + j]) :
        j \in {j \in 1..RecvBufSize :
                 Len(s.rx) + j <= RecvBufSize /\ s.placed + j <= budget.bytes}}

\* the peer acknowledges j bytes: tx_buffer.dequeue_allocated(j)
AckData(s) ==
    {WakeTx([s EXCEPT !.tx = SubSeq(s.tx, j + 1, Len(s.tx)),
                      !.takenLog = s.takenLog \o SubSeq(s.tx, 1, j)]) :
        j \in 1..Len(s.tx)}

\* TcpSocket::process: what one ingested segment can do to a socket
PeerEvents(s) ==
    CASE s.state = "Listen" -> {SetState(s, "SynReceived")}
      [] s.state = "SynReceived" -> {SetState(s, "Established"), SetState(s, "Listen")}
      [] s.state = "Established" ->
            RecvData(s) \cup AckData(s)
               \cup {SetState(s, "CloseWait"), SetState(s, "Closed")}
      [] s.state = "FinWait1" ->
            RecvData(s) \cup AckData(s)
               \cup (IF Len(s.tx) = 0
                        THEN {SetState(s, "FinWait2"), SetState(s, "TimeWait")}
                        ELSE {})
               \cup {SetState(s, "Closing"), SetState(s, "Closed")}
      [] s.state = "FinWait2" ->
            RecvData(s) \cup {SetState(s, "TimeWait"), SetState(s, "Closed")}
      [] s.state = "CloseWait" -> AckData(s) \cup {SetState(s, "Closed")}
      [] s.state = "Closing" ->
            AckData(s) \cup (IF Len(s.tx) = 0 THEN {SetState(s, "TimeWait")} ELSE {})
               \cup {SetState(s, "Closed")}
      [] s.state = "LastAck" ->
            AckData(s) \cup (IF Len(s.tx) = 0 THEN {SetState(s, "Closed")} ELSE {})
      [] OTHER -> {}

\* the socket's own timers: TIME-WAIT expiry
TimerEvents(s) == IF s.state = "TimeWait" THEN {SetState(s, "Closed")} ELSE {}

\* iface.poll(now) on one socket: nothing, a timer, or (frames ingested) a segment
PollSocket(s, ingress) ==
    {s} \cup TimerEvents(s) \cup (IF ingress THEN PeerEvents(s) ELSE {})

\* iface.poll_delay(now): None unless some socket has a timer or data to send
poll_delay_results(ss) ==
    {NoDelay} \cup
    (IF \E h \in DOMAIN ss : ss[h].state \notin {"Listen", "Closed"}
        THEN {SomeDelay(ms) : ms \in PollDelayMillis}
        ELSE {})

\* mutant: unwrap_or with a fallback ten times too long
NextDuration_long_fallback(pd) == IF pd.some THEN pd.ms ELSE 10 * FallbackMillis

\* .unwrap_or(Duration::from_millis(50))
NextDuration(pd) == IF pd.some THEN pd.ms ELSE FallbackMillis

(***************************** TcpConnection *******************************)
\* result of one poll_* call: the socket afterwards, Poll<io::Result<_>>, the
\* byte count, and whether manager.notify() ran
Out(s, res, n, notified) == [sock |-> s, res |-> res, n |-> n, notified |-> notified]

\* mutant: the bytes are copied out and stay in rx_buffer
recv_slice_no_dequeue(s, n) ==
    [s EXCEPT !.readLog = s.readLog \o SubSeq(s.rx, 1, Min(n, Len(s.rx)))]

\* TcpSocket::recv_slice into a buffer with n unfilled bytes
recv_slice(s, n) ==
    [s EXCEPT !.rx = SubSeq(s.rx, Min(n, Len(s.rx)) + 1, Len(s.rx)),
              !.readLog = s.readLog \o SubSeq(s.rx, 1, Min(n, Len(s.rx)))]

\* mutant: poll_read without the is_open test
poll_read_no_open_check(s, n) ==
    IF can_recv(s)
       THEN Out(recv_slice(s, n), "ok", Min(n, Len(s.rx)), TRUE)
       ELSE Out([s EXCEPT !.rxw = TRUE], "pending", 0, FALSE)

\* mutant: would-block without register_recv_waker
poll_read_no_waker(s, n) ==
    IF ~is_open(s)
       THEN Out(s, "ok", 0, FALSE)
       ELSE IF can_recv(s)
               THEN Out(recv_slice(s, n), "ok", Min(n, Len(s.rx)), TRUE)
               ELSE Out(s, "pending", 0, FALSE)

\* AsyncRead::poll_read with n unfilled bytes in buf
poll_read(s, n) ==
    IF ~is_open(s)
       THEN Out(s, "ok", 0, FALSE)
       ELSE IF can_recv(s)
               THEN Out(recv_slice(s, n), "ok", Min(n, Len(s.rx)), TRUE)
               ELSE Out([s EXCEPT !.rxw = TRUE], "pending", 0, FALSE)

\* TcpSocket::send_slice
send_slice(s, buf) ==
    [s EXCEPT !.tx = s.tx \o SubSeq(buf, 1, Min(Len(buf), SendBufSize - Len(s.tx))),
              !.accLog = s.accLog \o SubSeq(buf, 1, Min(Len(buf), SendBufSize - Len(s.tx)))]

\* mutant: poll_write without the is_open test
poll_write_no_open_check(s, buf) ==
    IF can_send(s)
       THEN Out(send_slice(s, buf), "ok",
                Min(Len(buf), SendBufSize - Len(s.tx)), TRUE)
       ELSE Out([s EXCEPT !.txw = TRUE], "pending", 0, FALSE)

\* mutant: the length of the caller's slice is reported, not what was accepted
poll_write_reports_len(s, buf) ==
    IF ~is_open(s)
       THEN Out(s, "err_broken_pipe", 0, FALSE)
       ELSE IF can_send(s)
               THEN Out(send_slice(s, buf), "ok", Len(buf), TRUE)
               ELSE Out([s EXCEPT !.txw = TRUE], "pending", 0, FALSE)

\* mutant: would-block registers the receive waker instead of the send waker
poll_write_wrong_waker(s, buf) ==
    IF ~is_open(s)
       THEN Out(s, "err_broken_pipe", 0, FALSE)
       ELSE IF can_send(s)
               THEN Out(send_slice(s, buf), "ok",
                        Min(Len(buf), SendBufSize - Len(s.tx)), TRUE)
               ELSE Out([s EXCEPT !.rxw = TRUE], "pending", 0, FALSE)

\* AsyncWrite::poll_write
poll_write(s, buf) ==
    IF ~is_open(s)
       THEN Out(s, "err_broken_pipe", 0, FALSE)
       ELSE IF can_send(s)
               THEN Out(send_slice(s, buf), "ok",
                        Min(Len(buf), SendBufSize - Len(s.tx)), TRUE)
               ELSE Out([s EXCEPT !.txw = TRUE], "pending", 0, FALSE)

\* mutant: shutdown completes as soon as the half-close has been issued
poll_shutdown_no_wait(s) ==
    LET s1 == IF is_open(s) THEN close(s) ELSE s
    IN IF is_open(s1) /\ s1.state = s.state
          THEN Out([s1 EXCEPT !.txw = TRUE], "pending", 0, FALSE)
          ELSE Out(s1, "ok", 0, TRUE)

\* AsyncWrite::poll_shutdown
poll_shutdown(s) ==
    LET s1 == IF is_open(s) THEN close(s) ELSE s
    IN IF s1.state # "Closed"
          THEN Out([s1 EXCEPT !.txw = TRUE], "pending", 0, FALSE)
          ELSE Out(s1, "ok", 0, TRUE)

\* the bytes the relay offers next: what it has not yet had accepted
WriteBuf(s, k) == Stream(Len(s.accLog) + 1, Len(s.accLog) + k)

ConnOps == {"read", "write", "shutdown"}

\* self.manager.lock() at the top of poll_read / poll_write / poll_shutdown and
\* of Drop::drop
ConnLock(c) ==
    /\ c \in DOMAIN conns
    /\ lock = NoLock
    /\ lock' = Held("conn", c)
    /\ ret' = NoRet
    /\ UNCHANGED <<sockets, conns, dropped, nconn, driver, tun, inq, budget>>

\* the critical section of poll_read / poll_write / poll_shutdown, called by the
\* relay of establish_tcp_tunnel; n is the room in the caller's ReadBuf or the
\* length of the slice written; an early return drops the guard at once
ConnBody(c, op, n) ==
    /\ lock = Held("conn", c)
    /\ conns[c].status = "relay"
    /\ op = "shutdown" => n = 1
    /\ LET h == conns[c].socket_handle
       IN IF h \in DOMAIN sockets
             THEN LET s == sockets[h]
                      o == CASE op = "read" -> poll_read(s, n)
                             [] op = "write" -> poll_write(s, WriteBuf(s, n))
                             [] OTHER -> poll_shutdown(s)
                  IN /\ (op = "write" /\ can_send(s)) =>
                           Len(s.accLog) + Min(n, SendBufSize - Len(s.tx)) <= budget.bytes
                     /\ sockets' = [sockets EXCEPT ![h] = o.sock]
                     /\ driver' = IF o.notified THEN notify_waiters(driver) ELSE driver
                     /\ ret' = [Ret(op, c, o.res, o.n, o.notified) EXCEPT !.arg = n]
                     \* manager.notify() is called through the guard, which
                     \* lives until the return that follows it
                     /\ lock' = IF o.notified THEN Held("conn_notified", c) ELSE NoLock
             ELSE \* get_socket panics on a handle that is not in the set
                  /\ ret' = Ret(op, c, "panic", 0, FALSE)
                  /\ lock' = NoLock
                  /\ UNCHANGED <<sockets, driver>>
    /\ UNCHANGED <<conns, dropped, nconn, tun, inq, budget>>

\* the return after manager.notify(): the guard goes out of scope
ConnReturn(c) ==
    /\ lock = Held("conn_notified", c)
    /\ lock' = NoLock
    /\ ret' = Ret("return", c, "ok", 0, FALSE)
    /\ UNCHANGED <<sockets, conns, dropped, nconn, driver, tun, inq, budget>>

\* handle_redir_client up to a successful AutoProxyClientStream::connect (a task
\* that holds the lock is in Drop::drop, past this point)
TaskConnect(c) ==
    /\ c \in DOMAIN conns
    /\ conns[c].status = "spawned"
    /\ lock # Held("conn", c)
    /\ conns' = [conns EXCEPT ![c].status = "relay",
                              ![c].target = NormalizeDaddr(conns[c].daddr)]
    /\ ret' = NoRet
    /\ UNCHANGED <<sockets, dropped, nconn, lock, driver, tun, inq, budget>>

\* mutant: Drop::drop that takes the lock and forgets remove_socket
remove_socket_leak(ss, h) == ss

\* mutant: the removal empties the whole socket set
remove_socket_all(ss, h) == [x \in {} |-> ss[x]]

\* SocketSet::remove
remove_socket(ss, h) == [x \in DOMAIN ss \ {h} |-> ss[x]]

\* Drop for TcpConnection, run when the task ends (connect error, relay finished
\* or failed, task cancelled): remove_socket under the lock
DropBody(c) ==
    /\ lock = Held("conn", c)
    /\ sockets' = remove_socket(sockets, conns[c].socket_handle)
    /\ conns' = [x \in DOMAIN conns \ {c} |-> conns[x]]
    /\ dropped' = dropped \cup {c}
    /\ lock' = NoLock
    \* SocketSet::remove panics on a handle that is not in the set
    /\ ret' = Ret("drop", c, IF conns[c].socket_handle \in DOMAIN sockets
                                THEN "ok" ELSE "panic", 0, FALSE)
    /\ UNCHANGED <<nconn, driver, tun, inq, budget>>

(****************************** driver loop ********************************)
\* the runtime polls the woken task: the loop body starts
DriverStart ==
    /\ driver.pc = "woken"
    /\ driver' = Running
    /\ ret' = NoRet
    /\ UNCHANGED <<sockets, conns, dropped, nconn, lock, tun, inq, budget>>

\* manager.lock() at the top of the loop body
DriverLock ==
    /\ driver.pc = "run"
    /\ lock = NoLock
    /\ lock' = Held("driver", 0)
    /\ ret' = NoRet
    /\ UNCHANGED <<sockets, conns, dropped, nconn, driver, tun, inq, budget>>

\* mutant: the guard is still alive at yield_now().await
DriverPoll_keeps_lock ==
    /\ lock.who = "driver"
    /\ driver.pc = "run"
    /\ driver' = IF tun.alive
                    THEN [pc |-> "yield", poll_delay |-> NoDelay,
                          next_duration |-> NextDuration(NoDelay)]
                    ELSE Aborted
    /\ ret' = Ret("poll", 0, "ok", Len(inq), FALSE)
    /\ inq' = <<>>
    /\ UNCHANGED <<sockets, conns, dropped, nconn, lock, tun, budget>>

\* iface.poll, iface.poll_delay, the guard dropped, then yield_now().await: the
\* first suspension point, where an abort requested meanwhile takes effect
DriverPoll ==
    /\ lock.who = "driver"
    /\ \E f \in [DOMAIN sockets -> UNION {PollSocket(sockets[h], inq # <<>>) :
                                            h \in DOMAIN sockets}] :
          /\ \A h \in DOMAIN sockets : f[h] \in PollSocket(sockets[h], inq # <<>>)
          /\ sockets' = f
    /\ inq' = <<>>
    /\ \E pd \in poll_delay_results(sockets') :
          driver' = IF tun.alive
                       THEN [pc |-> "yield", poll_delay |-> pd,
                             next_duration |-> NextDuration(pd)]
                       ELSE Aborted
    /\ lock' = NoLock
    /\ ret' = [Ret("poll", 0, "ok", Len(inq), FALSE) EXCEPT
                  !.woke = Cardinality({h \in DOMAIN sockets :
                                          sockets[h].rxw /\ ~sockets'[h].rxw})
                           + Cardinality({h \in DOMAIN sockets :
                                            sockets[h].txw /\ ~sockets'[h].txw})]
    /\ UNCHANGED <<conns, dropped, nconn, tun, budget>>

\* resumed after the yield: select! creates sleep(next_duration) and notified()
DriverSelect ==
    /\ driver.pc = "yield"
    /\ driver' = [driver EXCEPT !.pc = "select"]
    /\ ret' = NoRet
    /\ UNCHANGED <<sockets, conns, dropped, nconn, lock, tun, inq, budget>>

\* the sleep branch of the select! completes after next_duration
DriverTimer ==
    /\ driver.pc = "select"
    /\ driver' = Woken
    /\ ret' = Ret("timer", 0, "ok", driver.next_duration, FALSE)
    /\ UNCHANGED <<sockets, conns, dropped, nconn, lock, tun, inq, budget>>

(********************************* TcpTun **********************************)
\* mutant: the notification is signalled before the frame is sent
DriveSteps_notify_first == <<"notify", "send">>

\* drive_interface_state: the two effects in program order
DriveSteps == <<"send", "notify">>

\* ghost: a frame is numbered by its place among the frames delivered since the
\* device last drained the channel
FrameNo == Len(inq) + 1

\* drive_interface_state(frame): iface_tx.send(frame).await (waits for room),
\* then manager_notify.notify_waiters()
DriveStep ==
    /\ tun.alive
    /\ LET step == DriveSteps[tun.pc + 1]
       IN /\ step = "send" => Len(inq) < ChanCap
          /\ inq' = IF step = "send" THEN Append(inq, FrameNo) ELSE inq
          /\ driver' = IF step = "notify" THEN notify_waiters(driver) ELSE driver
          /\ tun' = [tun EXCEPT !.pc = (tun.pc + 1) % Len(DriveSteps),
                                !.sent = IF tun.pc + 1 = Len(DriveSteps)
                                            THEN FALSE
                                            ELSE tun.sent \/ step = "send"]
          /\ ret' = Ret(step, 0, "ok", 0, step = "notify")
    /\ UNCHANGED <<sockets, conns, dropped, nconn, lock, budget>>

\* mutant: Drop for TcpTun that does not abort manager_handle
DropTun_no_abort ==
    /\ tun.alive
    /\ tun.pc = 0
    /\ tun' = [tun EXCEPT !.alive = FALSE]
    /\ ret' = Ret("drop_tun", 0, "ok", 0, FALSE)
    /\ UNCHANGED <<sockets, conns, dropped, nconn, lock, driver, inq, budget>>

\* mutant: the abort takes the task away wherever it is, its guard never dropped
DropTun_abort_anywhere ==
    /\ tun.alive
    /\ tun.pc = 0
    /\ tun' = [tun EXCEPT !.alive = FALSE]
    /\ driver' = Aborted
    /\ ret' = Ret("drop_tun", 0, "ok", 0, FALSE)
    /\ UNCHANGED <<sockets, conns, dropped, nconn, lock, inq, budget>>

\* Drop for TcpTun: manager_handle.abort(); a driver loop that is not being
\* polled is never polled again, one that is being polled is cancelled at its
\* next suspension point
DropTun ==
    /\ tun.alive
    /\ tun.pc = 0
    /\ tun' = [tun EXCEPT !.alive = FALSE]
    /\ driver' = IF driver.pc \in {"woken", "yield", "select"}
                    THEN Aborted
                    ELSE driver
    /\ ret' = Ret("drop_tun", 0, "ok", 0, FALSE)
    /\ UNCHANGED <<sockets, conns, dropped, nconn, lock, inq, budget>>

Init ==
    /\ sockets = <<>>
    /\ conns = <<>>
    /\ dropped = {}
    /\ nconn = 0
    /\ lock = NoLock
    /\ driver = Woken
    /\ tun = [alive |-> TRUE, pc |-> 0, sent |-> FALSE]
    /\ inq = <<>>
    /\ budget \in Budgets
    /\ ret = NoRet

(*************************** TcpTun::handle_packet *************************)
\* TcpConnection::new under the lock, then tokio::spawn of handle_redir_client.
\* The critical section is add_socket alone, entered when the lock is free.
HandlePacketSyn(src, dst) ==
    /\ lock = NoLock
    /\ nconn < budget.conns
    /\ FreeHandles # {}
    /\ LET h == add_socket_handle
           c == nconn + 1
       IN /\ sockets' = [x \in DOMAIN sockets \cup {h} |->
                            IF x = h THEN NewListenSocket(c, dst) ELSE sockets[x]]
          /\ conns' = [x \in DOMAIN conns \cup {c} |->
                            IF x = c
                               THEN [socket_handle |-> h, status |-> "spawned",
                                     peer_addr |-> src, daddr |-> dst, target |-> dst]
                               ELSE conns[x]]
          /\ nconn' = c
          /\ ret' = Ret("handle_packet", c, "ok", 1, FALSE)
    /\ UNCHANGED <<dropped, lock, driver, tun, inq, budget>>

\* mutant: the ACK flag is not looked at
first_handshake_syn_only(syn, ack) == syn

\* tcp_packet.syn() && !tcp_packet.ack()
first_handshake(syn, ack) == syn /\ ~ack

HandlePacket(src, dst, syn, ack) ==
    /\ tun.alive
    /\ tun.pc = 0
    /\ IF first_handshake(syn, ack)
          THEN IF listen_ok(dst)
                  THEN HandlePacketSyn(src, dst)
                  ELSE /\ ret' = Ret("handle_packet", 0, "err_other", 0, FALSE)
                       /\ UNCHANGED <<sockets, conns, dropped, nconn, lock, driver,
                                      tun, inq, budget>>
          ELSE /\ ret' = Ret("handle_packet", 0, "ok", 0, FALSE)
               /\ UNCHANGED <<sockets, conns, dropped, nconn, lock, driver,
                              tun, inq, budget>>

Next ==
    \/ \E src \in SrcAddrs, dst \in budget.dsts, syn \in BOOLEAN, ack \in BOOLEAN :
          HandlePacket(src, dst, syn, ack)
    \/ DriveStep
    \/ DropTun
    \/ DriverStart
    \/ DriverLock
    \/ DriverPoll
    \/ DriverSelect
    \/ DriverTimer
    \/ \E c \in 1..MaxSockets : TaskConnect(c)
    \/ \E c \in 1..MaxSockets : ConnLock(c)
    \/ \E c \in 1..MaxSockets, op \in ConnOps, n \in 1..MaxBytes : ConnBody(c, op, n)
    \/ \E c \in 1..MaxSockets : ConnReturn(c)
    \/ \E c \in 1..MaxSockets : DropBody(c)

Spec == Init /\ [][Next]_vars

\* a task that holds the interface lock is in a critical section without an
\* await: it runs to the end of the section and drops the guard
Release ==
    \E c \in 1..MaxSockets :
        \/ DropBody(c)
        \/ ConnReturn(c)
        \/ \E op \in ConnOps, n \in 1..MaxBytes : ConnBody(c, op, n)

\* the liveness runs carry no payload and have one connection
FairBudgets == {b \in Budgets : b.bytes = 0 /\ b.conns = 1}

InitFair == Init /\ budget \in FairBudgets

\* fair scheduling: the runtime polls a woken or yielded driver task, its sleep
\* elapses, critical sections end, and the eventually-fair mutex hands the lock
\* to a driver loop that keeps asking for it
FairSpec ==
    /\ InitFair
    /\ [][Next]_vars
    /\ WF_vars(DriverStart)
    /\ SF_vars(DriverLock)
    /\ WF_vars(DriverPoll)
    /\ WF_vars(DriverSelect)
    /\ WF_vars(DriverTimer)
    /\ WF_vars(Release)

\* the relay polls the read half again
ReadAgain == \E c \in 1..MaxSockets, n \in 1..MaxBytes : ConnBody(c, "read", n)

\* fair scheduling with a relay that keeps reading: a connection task that
\* keeps asking for the lock gets it, and it calls poll_read again and again
FairReadSpec ==
    /\ FairSpec
    /\ SF_vars(\E c \in 1..MaxSockets : ConnLock(c))
    /\ SF_vars(ReadAgain)

(******************************* properties ********************************)
SocketOf(c) == sockets[conns[c].socket_handle]

\* C1: once a TcpConnection has been dropped, the socket it registered is no
\* longer in the interface's socket set, whatever happened to it before
C1_NoSocketOfDroppedHandle ==
    \A h \in DOMAIN sockets : sockets[h].sid \notin dropped

\* a connection was dropped and its slot now holds the next connection's socket
C1_Witness ==
    /\ 1 \in dropped
    /\ 1 \in DOMAIN sockets
    /\ sockets[1].sid = 2

SameTuple(a, b) == a.peer_addr = b.peer_addr /\ a.daddr = b.daddr

\* C2: a SYN for the 4-tuple of a connection that is still open creates no
\* second TcpConnection (no socket is added, no task is spawned)
C2_DuplicateSynCreatesNoHandle ==
    [][\A c \in DOMAIN conns' \ DOMAIN conns :
          ~\E d \in DOMAIN conns :
              /\ SameTuple(conns[d], conns'[c])
              /\ is_open(SocketOf(d))]_vars

\* C3: a handle_packet call with SYN set and ACK unset whose listen succeeds
\* adds exactly one listening socket, one TcpConnection and one spawned task and
\* leaves the other sockets alone; a call with any other flags changes neither
\* the socket set nor the connections and returns Ok
C3_HandlePacketEffect ==
    [][ret'.op = "handle_packet" =>
       \A src \in SrcAddrs, dst \in budget.dsts, syn \in BOOLEAN, ack \in BOOLEAN :
          HandlePacket(src, dst, syn, ack) =>
             IF syn /\ ~ack
                THEN dst.port # 0 =>
                       /\ Cardinality(DOMAIN sockets' \ DOMAIN sockets) = 1
                       /\ \A h \in DOMAIN sockets :
                             h \in DOMAIN sockets' /\ sockets'[h] = sockets[h]
                       /\ \A h \in DOMAIN sockets' \ DOMAIN sockets :
                             /\ sockets'[h].state = "Listen"
                             /\ sockets'[h].local = dst
                       /\ Cardinality(DOMAIN conns' \ DOMAIN conns) = 1
                       /\ \A c \in DOMAIN conns :
                             c \in DOMAIN conns' /\ conns'[c] = conns[c]
                       /\ \A c \in DOMAIN conns' \ DOMAIN conns :
                             /\ conns'[c].status = "spawned"
                             /\ conns'[c].socket_handle \in DOMAIN sockets' \ DOMAIN sockets
                       /\ ret'.res = "ok"
                ELSE /\ sockets' = sockets
                     /\ conns' = conns
                     /\ ret'.res = "ok"]_vars

\* a SYN has just been accepted while another connection was live
C3_Witness ==
    /\ ret.op = "handle_packet"
    /\ ret.n = 1
    /\ Cardinality(DOMAIN conns) = 2
    /\ Cardinality(DOMAIN sockets) = 2

\* C4: poll_read on a socket that is not open returns Ready(Ok) with no byte
\* read, registers no waker, changes nothing and does not notify
C4_ReadOnClosedIsEof ==
    [][\A c \in DOMAIN conns :
          (/\ ret'.op = "read"
           /\ ret'.c = c
           /\ ~is_open(SocketOf(c)))
          => /\ ret'.res = "ok"
             /\ ret'.n = 0
             /\ ~ret'.notified
             /\ sockets' = sockets]_vars

\* a read has just returned end-of-stream on a TIME-WAIT socket that still
\* buffers received bytes
C4_Witness ==
    /\ ret.op = "read"
    /\ ret.res = "ok"
    /\ ret.n = 0
    /\ ret.c \in DOMAIN conns
    /\ SocketOf(ret.c).state = "TimeWait"
    /\ Len(SocketOf(ret.c).rx) > 0

\* C5: poll_write on a socket that is not open returns BrokenPipe at once: no
\* byte accepted, no waker registered, the socket unchanged, the driver not
\* notified
C5_WriteOnClosedIsBrokenPipe ==
    [][\A c \in DOMAIN conns :
          (/\ ret'.op = "write"
           /\ ret'.c = c
           /\ ~is_open(SocketOf(c)))
          => /\ ret'.res = "err_broken_pipe"
             /\ ret'.n = 0
             /\ ~ret'.notified
             /\ sockets' = sockets
             /\ driver' = driver]_vars

\* a write has just failed on a closed socket while the driver waits in select!
C5_Witness ==
    /\ ret.op = "write"
    /\ ret.res = "err_broken_pipe"
    /\ ret.c \in DOMAIN conns
    /\ SocketOf(ret.c).state = "Closed"
    /\ driver.pc = "select"

\* the byte streams of one socket: what reads returned, then what rx_buffer
\* holds, is what the stack placed; what the stack took, then what tx_buffer
\* holds, is what writes accepted, and that is a prefix of what was offered
C6_Integrity ==
    \A h \in DOMAIN sockets :
        /\ sockets[h].readLog \o sockets[h].rx = Stream(1, sockets[h].placed)
        /\ sockets[h].takenLog \o sockets[h].tx = sockets[h].accLog
        /\ sockets[h].accLog = Stream(1, Len(sockets[h].accLog))

\* a step that changes a socket's buffers is the critical section of the driver
\* loop or of the connection that owns the socket
C6_LockedAccess ==
    \A h \in DOMAIN sockets \cap DOMAIN sockets' :
        (sockets'[h].rx # sockets[h].rx \/ sockets'[h].tx # sockets[h].tx)
        => \/ lock.who = "driver"
           \/ /\ lock.who = "conn"
              /\ lock.c \in DOMAIN conns
              /\ conns[lock.c].socket_handle = h

\* C6: whatever the interleaving of reads, writes and driver polls, buffers are
\* touched only under the interface lock and no byte is lost, duplicated or
\* reordered in either direction
C6_NoByteLostUnderLock == [](C6_Integrity) /\ [][C6_LockedAccess]_vars

\* a partial read and a partial acknowledgement have both happened
C6_Witness ==
    \E h \in DOMAIN sockets :
        /\ Len(sockets[h].readLog) >= 1
        /\ Len(sockets[h].rx) >= 1
        /\ Len(sockets[h].takenLog) >= 1
        /\ Len(sockets[h].tx) >= 1

\* C7 as stated: the sleep armed between two polls never exceeds the 50 ms
\* fallback, whatever poll_delay returned
C7_WaitWithinFallback ==
    driver.pc \in {"yield", "select"} => driver.next_duration <= FallbackMillis

\* C7 amended: the sleep armed between two polls is what poll_delay returned,
\* and the 50 ms fallback only when poll_delay returned None
C7_WaitIsPollDelayOrFallback ==
    driver.pc \in {"yield", "select"} =>
        driver.next_duration =
           (IF driver.poll_delay.some THEN driver.poll_delay.ms ELSE FallbackMillis)

\* the driver waits in select! on the fallback, no timer pending
C7_Witness ==
    /\ driver.pc = "select"
    /\ ~driver.poll_delay.some
    /\ driver.next_duration = FallbackMillis
    /\ DOMAIN sockets # {}

\* C8 as stated: once TcpTun has been dropped the interface is never polled
C8_NeverPolledAfterDrop == [][~tun.alive => ret'.op # "poll"]_vars

\* once TcpTun has been dropped the driver loop is finishing the iteration it
\* was running or is gone, never waiting
C8_DriverNotSuspended == ~tun.alive => driver.pc \in {"run", "aborted"}

\* after the drop: nothing panics, a poll is the one of the iteration that was
\* running and ends with the task cancelled, a cancelled task stays cancelled,
\* and a notification changes nothing about the driver loop
C8_AfterDrop ==
    ~tun.alive =>
        /\ ret'.res # "panic"
        /\ ret'.op = "poll" => (driver.pc = "run" /\ driver'.pc = "aborted")
        /\ driver.pc = "aborted" => driver' = driver
        /\ ret'.notified => driver' = driver

\* C8 amended: dropping TcpTun stops the driver loop at its next suspension
\* point: at most the iteration already running polls once more, later
\* notifications cause no poll, and no operation panics
C8_DriverStopsAfterDrop == [](C8_DriverNotSuspended) /\ [][C8_AfterDrop]_vars

\* a connection has just notified a driver loop that was cancelled
C8_Witness ==
    /\ ~tun.alive
    /\ driver.pc = "aborted"
    /\ ret.notified
    /\ ret.c \in DOMAIN conns

\* the notification of one drive_interface_state call comes after its send
C9_SentBeforeNotify == ret'.op = "notify" => tun.sent

\* the channel holds the frames not yet taken by the device in call order
C9_Fifo == inq = Stream(1, Len(inq))

\* C9: a frame is in the channel before the notification is signalled, frames
\* stay in call order, and while TcpTun is alive the driver loop keeps polling,
\* so every frame in the channel is taken by a later poll even if the
\* notification found the driver loop not waiting
C9_FrameEventuallyPolled ==
    /\ [][C9_SentBeforeNotify]_vars
    /\ [](C9_Fifo)
    /\ \A f \in 1..ChanCap :
          (\E i \in DOMAIN inq : inq[i] = f)
             ~> (~tun.alive \/ ~(\E i \in DOMAIN inq : inq[i] = f))
    /\ []<>(~tun.alive \/ ret.op = "poll")

\* the notification was signalled while the driver loop was between its poll
\* and its select!, with the frame in the channel
C9_Witness ==
    /\ tun.alive
    /\ ret.op = "notify"
    /\ driver.pc = "yield"
    /\ inq # <<>>

\* ::ffff:a.b.c.d, the IPv4-mapped IPv6 form
C10_IsMapped(a) ==
    /\ a.v = 6
    /\ SubSeq(a.ip, 1, 12) = <<0, 0, 0, 0, 0, 0, 0, 0, 0, 0, 255, 255>>

\* C10: the destination a connection's task connects to is the plain IPv4
\* address with the same port when the captured destination is IPv4-mapped
\* IPv6, and the captured destination itself in every other case
C10_TargetIsNormalized ==
    \A c \in DOMAIN conns :
        conns[c].status = "relay" =>
            conns[c].target =
               (IF C10_IsMapped(conns[c].daddr)
                   THEN [v |-> 4, ip |-> SubSeq(conns[c].daddr.ip, 13, 16),
                         port |-> conns[c].daddr.port]
                   ELSE conns[c].daddr)

\* a connection captured for [::ffff:93.184.216.34]:80 relays to
\* 93.184.216.34:80
C10_Witness ==
    \E c \in DOMAIN conns :
        /\ conns[c].status = "relay"
        /\ conns[c].daddr = V6(MappedOctets, 80)
        /\ conns[c].target = V4(93, 184, 216, 34, 80)

\* the end of one connection's task: its socket and its handle go, every other
\* socket and handle is as it was, nothing panics, the driver loop is not
\* touched and the lock is free again
C11_DropStep ==
    ret'.op = "drop" =>
        /\ ret'.res = "ok"
        /\ ret'.c \in DOMAIN conns
        /\ DOMAIN sockets' = DOMAIN sockets \ {conns[ret'.c].socket_handle}
        /\ \A g \in DOMAIN sockets' : sockets'[g] = sockets[g]
        /\ DOMAIN conns' = DOMAIN conns \ {ret'.c}
        /\ \A d \in DOMAIN conns' : conns'[d] = conns[d]
        /\ driver' = driver
        /\ inq' = inq
        /\ lock' = NoLock

\* C11: when one connection's task ends in failure only that connection is
\* affected: its socket is removed, the other sockets stay registered with
\* their state unchanged, and the driver loop goes on as before
C11_FailureIsolated == [][C11_DropStep]_vars

\* one connection has just been dropped while another one is established and
\* the driver loop is alive
C11_Witness ==
    /\ ret.op = "drop"
    /\ tun.alive
    /\ driver.pc = "select"
    /\ \E h \in DOMAIN sockets : sockets[h].state = "Established"

\* C12: when a read that copied data signals the driver loop's notification,
\* the reading task does not hold the interface lock
C12_ReadNotifiesAfterRelease ==
    (ret.op = "read" /\ ret.notified) => lock # Held("conn_notified", ret.c)

\* a read on an open socket that has nothing to receive: would-block, the
\* receive waker registered, and nothing else anywhere
C13_ReadStep ==
    (/\ ret'.op = "read"
     /\ lock = Held("conn", ret'.c)
     /\ is_open(SocketOf(ret'.c))
     /\ ~can_recv(SocketOf(ret'.c)))
    => /\ ret'.res = "pending"
       /\ ret'.n = 0
       /\ ~ret'.notified
       /\ sockets' = [sockets EXCEPT ![conns[ret'.c].socket_handle].rxw = TRUE]
       /\ lock' = NoLock
       /\ UNCHANGED <<conns, dropped, nconn, driver, tun, inq>>

\* C13: a read on an open socket with no receivable data registers the
\* receive waker and returns would-block; no byte leaves the receive buffer,
\* the caller's buffer is not advanced and the driver loop is not notified
C13_ReadWouldBlock == [][C13_ReadStep]_vars

\* a read has just returned would-block on an established socket while the
\* driver loop waits in its select!
C13_Witness ==
    /\ ret.op = "read"
    /\ ret.res = "pending"
    /\ ret.c \in DOMAIN conns
    /\ SocketOf(ret.c).state = "Established"
    /\ SocketOf(ret.c).rxw
    /\ driver.pc = "select"

\* the bytes a write of k bytes must leave accepted: the first min(k, f) of
\* the caller's slice, f the free room of the send buffer
C14_Accepted(s, k) ==
    LET f == SendBufSize - Len(s.tx)
        m == IF k < f THEN k ELSE f
    IN [i \in 1..m |-> Len(s.accLog) + i]

\* a write on an open socket, with and without room to send
C14_WriteStep ==
    (/\ ret'.op = "write"
     /\ lock = Held("conn", ret'.c)
     /\ is_open(SocketOf(ret'.c)))
    => LET s == SocketOf(ret'.c)
           h == conns[ret'.c].socket_handle
           acc == C14_Accepted(s, ret'.arg)
       IN IF may_send(s) /\ Len(s.tx) < SendBufSize
             THEN /\ ret'.res = "ok"
                  /\ ret'.n = Len(acc)
                  /\ Len(acc) >= 1
                  /\ ret'.notified
                  /\ sockets' = [sockets EXCEPT ![h].tx = s.tx \o acc,
                                                ![h].accLog = s.accLog \o acc]
                  /\ driver.pc = "select" => driver'.pc = "woken"
                  /\ driver.pc # "select" => driver' = driver
             ELSE /\ ret'.res = "pending"
                  /\ ret'.n = 0
                  /\ ~ret'.notified
                  /\ sockets' = [sockets EXCEPT ![h].txw = TRUE]
                  /\ driver' = driver
                  /\ lock' = NoLock

\* C14: a write of k bytes on an open socket that can send, with f free bytes
\* in the send buffer, accepts exactly min(k, f) bytes in order, reports that
\* count and notifies the driver loop; on an open socket that cannot send it
\* accepts nothing, registers the send waker and returns would-block without
\* notifying
C14_WriteAcceptsMin == [][C14_WriteStep]_vars

\* a write of two bytes found room for one and reported one
C14_Witness ==
    /\ ret.op = "write"
    /\ ret.res = "ok"
    /\ ret.arg = 2
    /\ ret.n = 1
    /\ ret.c \in DOMAIN conns
    /\ Len(SocketOf(ret.c).tx) = SendBufSize

\* the state a half-close leaves a socket in (RFC 793 CLOSE call)
C15_HalfClosed(st) ==
    CASE st = "Listen" -> "Closed"
      [] st \in {"SynReceived", "Established"} -> "FinWait1"
      [] st = "CloseWait" -> "LastAck"
      [] OTHER -> st

\* one shutdown call
C15_ShutdownStep ==
    (/\ ret'.op = "shutdown"
     /\ lock = Held("conn", ret'.c)
     /\ conns[ret'.c].socket_handle \in DOMAIN sockets)
    => LET s == SocketOf(ret'.c)
           h == conns[ret'.c].socket_handle
           st == IF s.state \notin {"Closed", "TimeWait"}
                    THEN C15_HalfClosed(s.state) ELSE s.state
       IN /\ sockets'[h].state = st
          /\ sockets'[h].rx = s.rx /\ sockets'[h].tx = s.tx
          /\ IF st = "Closed"
                THEN /\ ret'.res = "ok"
                     /\ ret'.notified
                     /\ sockets'[h].txw => s.txw
                     /\ driver.pc = "select" => driver'.pc = "woken"
                ELSE /\ ret'.res = "pending"
                     /\ ~ret'.notified
                     /\ sockets'[h].txw
                     /\ driver' = driver
                     /\ lock' = NoLock
          /\ s.state = "Closed" => sockets' = sockets

\* C15: shutdown half-closes the socket exactly when it is still open,
\* completes (and notifies the driver loop) only when the socket is Closed,
\* otherwise registers the send waker and returns would-block, and a shutdown
\* repeated after completion succeeds again and leaves the socket as it is
C15_ShutdownCompletesWhenClosed == [][C15_ShutdownStep]_vars

\* a shutdown has completed on a connection that had carried data
C15_Witness ==
    /\ ret.op = "shutdown"
    /\ ret.res = "ok"
    /\ ret.c \in DOMAIN conns
    /\ SocketOf(ret.c).state = "Closed"
    /\ Len(SocketOf(ret.c).takenLog) >= 1

\* a suspended task does not hold the lock: the driver loop outside its
\* locked block, a connection task that has just returned would-block
C16_SuspendedWithoutLock ==
    /\ driver.pc \in {"woken", "yield", "select", "aborted"} => lock.who # "driver"
    /\ (ret.op \in ConnOps /\ ret.res = "pending") => lock.c # ret.c

\* whoever holds the lock can take its next step, which frees the lock
C16_HolderRuns ==
    /\ lock.who = "driver" => ENABLED DriverPoll
    /\ lock.who \in {"conn", "conn_notified"} => ENABLED Release

\* C16: the interface lock is never held across a suspension point, so the
\* holder of the lock is always a task that can run on and release it
C16_LockNotHeldAcrossSuspension == C16_SuspendedWithoutLock /\ C16_HolderRuns

\* a write has just returned would-block while the driver loop is suspended in
\* its yield
C16_Witness ==
    /\ ret.op = "write"
    /\ ret.res = "pending"
    /\ driver.pc = "yield"
    /\ lock = NoLock

\* live handles and registered sockets correspond one to one
C17_Bijection ==
    /\ \A c \in DOMAIN conns :
          /\ conns[c].socket_handle \in DOMAIN sockets
          /\ sockets[conns[c].socket_handle].sid = c
    /\ \A h \in DOMAIN sockets :
          \E c \in DOMAIN conns : conns[c].socket_handle = h
    /\ \A c, d \in DOMAIN conns :
          conns[c].socket_handle = conns[d].socket_handle => c = d
    /\ dropped \cap DOMAIN conns = {}

\* remove_socket runs on a registered handle of a connection that has not been
\* dropped before
C17_RemoveOnce ==
    ret'.op = "drop" =>
        /\ ret'.res = "ok"
        /\ ret'.c \in DOMAIN conns \ dropped
        /\ ret'.c \in dropped'

\* C17: live connection handles and registered sockets are in one-to-one
\* correspondence in every reachable state, and remove_socket is called
\* exactly once for each socket handle
C17_HandlesMatchSockets == [](C17_Bijection) /\ [][C17_RemoveOnce]_vars

\* a vacated slot has been handed out again while the driver loop holds the
\* lock
C17_Witness ==
    /\ dropped # {}
    /\ lock.who = "driver"
    /\ \E c \in DOMAIN conns : conns[c].socket_handle < c

\* the peer's FIN has been processed, the receive buffer is drained and the
\* socket is still open for sending
C18_PeerHalfClosed(c) ==
    /\ c \in DOMAIN conns
    /\ conns[c].status = "relay"
    /\ SocketOf(c).state = "CloseWait"
    /\ SocketOf(c).rx = <<>>

\* C18: after the peer half-closes an established connection a read on the
\* connection handle eventually completes with end-of-stream, the socket not
\* having to leave the half-closed state first (the obligation ends when the
\* connection is dropped, its socket leaves CloseWait or TcpTun is dropped)
C18_ReadEofAfterPeerFin ==
    \A c \in 1..MaxSockets :
        C18_PeerHalfClosed(c)
           ~> \/ ~C18_PeerHalfClosed(c)
              \/ ~tun.alive
              \/ (ret.op = "read" /\ ret.c = c /\ ret.res = "ok" /\ ret.n = 0)

\* a waker that is still registered waits for something that has not happened:
\* no receive waker on a socket that has data to read or is no longer open, no
\* send waker on a socket that has room to send or is Closed
C19_NoStaleWaker ==
    \A h \in DOMAIN sockets :
        /\ sockets[h].rxw =>
              /\ sockets[h].state \notin {"Closed", "TimeWait"}
              /\ sockets[h].rx = <<>>
        /\ sockets[h].txw =>
              /\ sockets[h].state # "Closed"
              /\ ~(/\ sockets[h].state \in {"Established", "CloseWait"}
                   /\ Len(sockets[h].tx) < SendBufSize)

\* a poll that makes the awaited condition true wakes the waker, and a waker
\* is taken out of its slot only under the lock
C19_PollWakes ==
    \A h \in DOMAIN sockets \cap DOMAIN sockets' :
        /\ lock.who = "driver" =>
              /\ (sockets[h].rxw /\ sockets'[h].rx # sockets[h].rx)
                    => ~sockets'[h].rxw
              /\ (sockets[h].rxw /\ sockets'[h].state # sockets[h].state)
                    => ~sockets'[h].rxw
              /\ (sockets[h].txw /\ sockets'[h].state # sockets[h].state)
                    => ~sockets'[h].txw
              /\ (sockets[h].txw /\ Len(sockets'[h].tx) < Len(sockets[h].tx))
                    => ~sockets'[h].txw
        /\ ((sockets[h].rxw /\ ~sockets'[h].rxw) \/ (sockets[h].txw /\ ~sockets'[h].txw))
              => lock.who \in {"driver", "conn"}

\* the operation retried once its condition holds does not block again
C19_RetryCompletes ==
    (ret'.op \in ConnOps /\ lock = Held("conn", ret'.c)
       /\ conns[ret'.c].socket_handle \in DOMAIN sockets)
    => LET s == SocketOf(ret'.c)
       IN /\ (ret'.op = "read" /\ (can_recv(s) \/ ~is_open(s)))
                => ret'.res = "ok"
          /\ (ret'.op = "write" /\ can_send(s)) => ret'.res = "ok"
          /\ (ret'.op = "write" /\ ~is_open(s)) => ret'.res = "err_broken_pipe"
          /\ (ret'.op = "shutdown" /\ s.state = "Closed") => ret'.res = "ok"

\* C19: no wakeup of a connection task is lost: a task that returned
\* would-block has its waker registered under the lock, the poll that makes
\* the awaited condition true wakes it, and the retried operation completes
C19_NoLostWakeup ==
    [](C19_NoStaleWaker) /\ [][C19_PollWakes /\ C19_RetryCompletes]_vars

\* a poll has just placed the first byte in the receive buffer of a socket
\* whose reader was waiting, and woke it
C19_Witness ==
    /\ ret.op = "poll"
    /\ ret.woke >= 1
    /\ \E h \in DOMAIN sockets :
          /\ DOMAIN sockets = {h}
          /\ sockets[h].state = "Established"
          /\ Len(sockets[h].rx) = 1
          /\ sockets[h].placed = 1
          /\ sockets[h].accLog = <<>>
          /\ ~sockets[h].rxw

\* after TcpTun has been dropped: a cancelled driver loop holds no lock, one
\* that still holds it is running and about to free it, a free lock can be
\* taken by every surviving connection handle, and a handle that holds it can
\* run its drop
C20_LockUsable ==
    ~tun.alive =>
        /\ driver.pc = "aborted" => lock.who # "driver"
        /\ lock.who = "driver" => (driver.pc = "run" /\ ENABLED DriverPoll)
        /\ lock = NoLock => \A c \in DOMAIN conns : ENABLED ConnLock(c)
        /\ \A c \in DOMAIN conns : lock = Held("conn", c) => ENABLED DropBody(c)

\* after TcpTun has been dropped, dropping a handle removes its socket
C20_DropRemoves ==
    (~tun.alive /\ ret'.op = "drop") =>
        /\ ret'.res = "ok"
        /\ conns[ret'.c].socket_handle \in DOMAIN sockets
        /\ conns[ret'.c].socket_handle \notin DOMAIN sockets'

\* C20: the driver loop is cancelled only at its suspension points, outside
\* the locked block, so dropping TcpTun never leaves the interface lock held:
\* every surviving connection handle can still take the lock and its drop
\* still removes its socket
C20_AbortLeavesLockFree == [](C20_LockUsable) /\ [][C20_DropRemoves]_vars

\* a connection handle has been dropped after the driver loop was cancelled
C20_Witness ==
    /\ ~tun.alive
    /\ driver.pc = "aborted"
    /\ ret.op = "drop"
    /\ ret.res = "ok"
    /\ lock = NoLock
====
